---- MODULE Spec2Model ----
(***************************************************************************)
(* A model of address-space-sim: bit.py (class bit) and byte.py (class     *)
(* byte).  Objects are records shaped like the Python objects: a bit is    *)
(* [_parity, _data] where _data has the key "parity" only when parity is   *)
(* enabled; a byte is [_parity, _data] where _data.data is the list of 8   *)
(* bits and _data has the key "parity" only for odd parity levels.         *)
(*                                                                         *)
(* A call returns [self, err, ret]: the object after the call, the name of *)
(* the exception it raised ("none" when it returned), and the returned     *)
(* value wrapped in a tuple (<<>> for None or when it raised).             *)
(***************************************************************************)
EXTENDS Integers, Sequences, FiniteSets

VARIABLES
    abit,     \* a standalone bit object
    trace,    \* the last calls made on abit, newest last: [op, args, pre, err, ret]
    abyte,    \* a byte object
    op,       \* the name of the last call made on abyte (or on one of its bits)
    args,     \* its arguments when it was get_byte or set_byte, <<>> otherwise
    result    \* [err, ret] of the last call made on abyte

vars == <<abit, trace, abyte, op, args, result>>

\* ---------------------------------------------------------------- constants
NumBits == 8       \* count = 8 in byte.__init__
MaxLevel == 3      \* parity levels are 0-3

\* ---------------------------------------------------------------- bounds
MaxOver == 1       \* indices tried run from -(NumBits + MaxOver) to NumBits - 1 + MaxOver
MaxLen == 2        \* set_byte is given every list of booleans this long or shorter
FaultBits == 2     \* data bits 0..FaultBits-1 are the ones a fault can desynchronise
MaxTrace == 3      \* calls on abit that trace remembers

Levels == 0..MaxLevel
Returned(self, ret) == [self |-> self, err |-> "none", ret |-> ret]
Raised(self, err) == [self |-> self, err |-> err, ret |-> <<>>]

\* ---------------------------------------------------------------- bit.py
bit_init(parity) ==
    [_parity |-> parity,
     _data |-> IF parity THEN [data |-> FALSE, parity |-> FALSE]
                         ELSE [data |-> FALSE]]

\* check_parity is attached to the object only when parity is enabled
bit_check_parity(self) ==
    IF self._parity
    THEN Returned(self, <<self._data.parity = self._data.data>>)
    ELSE Raised(self, "AttributeError")

\* a get_bit that skips the comparison with the parity value
Mut_bit_get_bit_unchecked(self, kwargs) ==
    IF kwargs # {}
    THEN Raised(self, "TypeError")
    ELSE Returned(self, <<self._data.data>>)

\* a get_bit that repairs the parity value when it finds a mismatch
Mut_bit_get_bit_repairs(self, kwargs) ==
    IF kwargs # {}
    THEN Raised(self, "TypeError")
    ELSE IF self._parity /\ self._data.data # self._data.parity
         THEN Raised([self EXCEPT !._data.parity = self._data.data], "ValueError")
         ELSE Returned(self, <<self._data.data>>)

\* kwargs: the names of the keyword arguments the caller passes; get_bit(self)
\* declares none, so Python raises TypeError for any of them
bit_get_bit(self, kwargs) ==
    IF kwargs # {}
    THEN Raised(self, "TypeError")
    ELSE IF self._parity
         THEN IF self._data.data = self._data.parity
              THEN Returned(self, <<self._data.data>>)
              ELSE Raised(self, "ValueError")
         ELSE Returned(self, <<self._data.data>>)

\* a set_bit that leaves the parity value alone
Mut_bit_set_bit_data_only(self, data) ==
    Returned([self EXCEPT !._data.data = (data = TRUE)], <<>>)

bit_set_bit(self, data) ==
    LET new_data == (data = TRUE)
        d1 == IF self._parity
              THEN [self._data EXCEPT !.parity = new_data]
              ELSE self._data
    IN  Returned([self EXCEPT !._data = [d1 EXCEPT !.data = new_data]], <<>>)

\* a bit_flip that never touches the parity value
Mut_bit_bit_flip_data_only(self, parity) ==
    Returned([self EXCEPT !._data.data = ~self._data.data], <<>>)

\* a bit_flip that sets the parity value to the new data value
Mut_bit_bit_flip_resync(self, parity) ==
    LET d1 == IF parity /\ self._parity
              THEN [self._data EXCEPT !.parity = ~self._data.data]
              ELSE self._data
    IN  Returned([self EXCEPT !._data = [d1 EXCEPT !.data = ~d1.data]], <<>>)

bit_bit_flip(self, parity) ==
    LET d1 == IF parity /\ self._parity
              THEN [self._data EXCEPT !.parity = ~self._data.parity]
              ELSE self._data
    IN  Returned([self EXCEPT !._data = [d1 EXCEPT !.data = ~d1.data]], <<>>)

\* ---------------------------------------------------------------- byte.py
BitParity(parity) == parity >= 2
ByteParity(parity) == (parity % 2) = 1

byte_init(parity) ==
    LET bits == [i \in 1..NumBits |-> bit_init(BitParity(parity))]
    IN  [_parity |-> parity,
         _data |-> IF ByteParity(parity)
                   THEN [data |-> bits,
                         parity |-> bit_bit_flip(bit_init(BitParity(parity)), TRUE).self]
                   ELSE [data |-> bits]]

\* a counting loop that reads the data values without get_bit()
Mut_num_1s_raw(self) ==
    [err |-> "none",
     n |-> Cardinality({i \in DOMAIN self._data.data : self._data.data[i]._data.data})]

\* the counting loop of check_parity and recalculate_parity: each bit is read
\* with get_bit(), and the first read that raises ends the loop
num_1s(self) ==
    LET bits == self._data.data
        reads == [i \in DOMAIN bits |-> bit_get_bit(bits[i], {})]
        bad == {i \in DOMAIN bits : reads[i].err # "none"}
    IN  IF bad # {}
        THEN [err |-> reads[CHOOSE i \in bad : \A j \in bad : i <= j].err, n |-> 0]
        ELSE [err |-> "none", n |-> Cardinality({i \in DOMAIN bits : reads[i].ret[1]})]

\* a check_parity with the polarity the other way round
Mut_byte_check_parity_inverted(self) ==
    IF self._parity = 0
    THEN Raised(self, "AttributeError")
    ELSE LET c == num_1s(self)
         IN  IF c.err # "none"
             THEN Raised(self, c.err)
             ELSE IF "parity" \notin DOMAIN self._data
                  THEN Raised(self, "KeyError")
                  ELSE LET g == bit_get_bit(self._data.parity, {})
                       IN  IF g.err # "none"
                           THEN Raised(self, g.err)
                           ELSE IF (c.n % 2) = 1
                                THEN Returned(self, <<g.ret[1]>>)
                                ELSE Returned(self, <<~g.ret[1]>>)

\* check_parity is attached to the object whenever the parity level is not 0
byte_check_parity(self) ==
    IF self._parity = 0
    THEN Raised(self, "AttributeError")
    ELSE LET c == num_1s(self)
         IN  IF c.err # "none"
             THEN Raised(self, c.err)
             ELSE IF "parity" \notin DOMAIN self._data
                  THEN Raised(self, "KeyError")
                  ELSE LET g == bit_get_bit(self._data.parity, {})
                       IN  IF g.err # "none"
                           THEN Raised(self, g.err)
                           ELSE IF (c.n % 2) = 1
                                THEN Returned(self, <<~g.ret[1]>>)
                                ELSE Returned(self, <<g.ret[1]>>)

byte_recalculate_parity(self) ==
    IF self._parity = 0
    THEN Raised(self, "AttributeError")
    ELSE LET c == num_1s(self)
         IN  IF c.err # "none"
             THEN Raised(self, c.err)
             ELSE IF "parity" \notin DOMAIN self._data
                  THEN Raised(self, "KeyError")
                  ELSE Returned([self EXCEPT !._data.parity =
                                    bit_set_bit(@, (c.n % 2) # 1).self], <<>>)

\* Python list indexing: -len..len-1 are valid, negative indices count from
\* the end; the result is the position in the TLA+ sequence (0 when invalid)
ListPos(len, index) ==
    IF index >= 0 /\ index < len THEN index + 1
    ELSE IF index < 0 /\ index >= -len THEN len + index + 1
    ELSE 0

\* a get_byte that skips the parity check
Mut_byte_get_byte_unchecked(self, override_parity) ==
    LET bits == self._data.data
        reads == [i \in DOMAIN bits |-> bit_get_bit(bits[i], {"override_parity"})]
        bad == {i \in DOMAIN bits : reads[i].err # "none"}
    IN  IF bad # {}
        THEN Raised(self, reads[CHOOSE i \in bad : \A j \in bad : i <= j].err)
        ELSE Returned(self, [i \in DOMAIN bits |-> reads[i].ret[1]])

byte_get_byte(self, override_parity) ==
    LET c == byte_check_parity(self)
        bits == self._data.data
        reads == [i \in DOMAIN bits |-> bit_get_bit(bits[i], {"override_parity"})]
        bad == {i \in DOMAIN bits : reads[i].err # "none"}
    IN  IF self._parity # 0 /\ ~override_parity /\ c.err # "none"
        THEN Raised(self, c.err)
        ELSE IF self._parity # 0 /\ ~override_parity /\ ~c.ret[1]
        THEN Raised(self, "ValueError")
        ELSE IF bad # {}
        THEN Raised(self, reads[CHOOSE i \in bad : \A j \in bad : i <= j].err)
        ELSE Returned(self, [i \in DOMAIN bits |-> reads[i].ret[1]])

\* a set_bit that does not recalculate the parity bit
Mut_byte_set_bit_no_recalculate(self, index, value) ==
    LET pos == ListPos(Len(self._data.data), index)
    IN  IF pos = 0
        THEN Raised(self, "IndexError")
        ELSE Returned([self EXCEPT !._data.data[pos] = bit_set_bit(@, value).self], <<>>)

byte_set_bit(self, index, value) ==
    LET pos == ListPos(Len(self._data.data), index)
        written == [self EXCEPT !._data.data[pos] = bit_set_bit(@, value).self]
    IN  IF pos = 0
        THEN Raised(self, "IndexError")
        ELSE IF self._parity # 0
             THEN byte_recalculate_parity(written)
             ELSE Returned(written, <<>>)

byte_get_bit(self, index, override_parity) ==
    LET pos == ListPos(Len(self._data.data), index)
    IN  IF pos = 0
        THEN Raised(self, "IndexError")
        ELSE LET g == bit_get_bit(self._data.data[pos], {"override_parity"})
             IN  IF g.err # "none" THEN Raised(self, g.err) ELSE Returned(self, g.ret)

\* lines 130-139 of set_byte: the list that is then written bit by bit
RECURSIVE Place(_, _, _)
Place(data, value, endian) ==
    IF value = <<>>
    THEN data
    ELSE Place(IF endian THEN <<Head(value) = TRUE>> \o data
                         ELSE Append(data, Head(value) = TRUE),
               Tail(value), endian)

\* a set_byte that inserts at the front whatever endian is
Mut_set_byte_data_insert(value, endian) ==
    LET filler == NumBits - Len(value)
    IN  Place([i \in 1..(IF filler > 0 THEN filler ELSE 0) |-> FALSE], value, TRUE)

\* a set_byte that fills the missing values in after the supplied ones
Mut_set_byte_data_fill_last(value, endian) ==
    LET filler == NumBits - Len(value)
    IN  Place(<<>>, value, endian)
        \o [i \in 1..(IF filler > 0 THEN filler ELSE 0) |-> FALSE]

\* a set_byte that appends whatever endian is
Mut_set_byte_data_append(value, endian) ==
    LET filler == NumBits - Len(value)
    IN  Place([i \in 1..(IF filler > 0 THEN filler ELSE 0) |-> FALSE], value, FALSE)

set_byte_data(value, endian) ==
    LET filler == NumBits - Len(value)
    IN  Place([i \in 1..(IF filler > 0 THEN filler ELSE 0) |-> FALSE], value, endian)

\* line 140-141 of set_byte: set_bit(k, data[k]) for k = 0, 1, ...; the first
\* call that raises ends the loop with the earlier writes in place
RECURSIVE WriteAll(_, _, _)
WriteAll(self, data, k) ==
    IF k >= Len(data)
    THEN Returned(self, <<>>)
    ELSE LET w == byte_set_bit(self, k, data[k + 1])
         IN  IF w.err # "none" THEN w ELSE WriteAll(w.self, data, k + 1)

byte_set_byte(self, value, endian) ==
    WriteAll(self, set_byte_data(value, endian), 0)

\* ---------------------------------------------------------------- inputs
Indices == (0 - (NumBits + MaxOver))..(NumBits - 1 + MaxOver)
Pattern == <<TRUE, TRUE, FALSE, TRUE, FALSE, FALSE, FALSE, TRUE, TRUE, FALSE>>
\* every list of at most MaxLen booleans, and one list of each length up to
\* NumBits + MaxOver
ValueLists ==
    UNION {[1..n -> BOOLEAN] : n \in 0..MaxLen}
    \cup {SubSeq(Pattern, 1, n) : n \in 0..(NumBits + MaxOver)}
\* the lists set_byte is given on a byte that faults are injected into
FaultLists == {SubSeq(Pattern, 1, n) : n \in {3, NumBits, NumBits + MaxOver}}

Mismatched(b) == b._parity /\ b._data.data # b._data.parity

\* ---------------------------------------------------------------- a standalone bit
Keep(t) == IF Len(t) > MaxTrace THEN Tail(t) ELSE t

BitCall(name, a, r) ==
    /\ abit' = r.self
    /\ trace' = Keep(Append(trace, [op |-> name, args |-> a, pre |-> abit,
                                    err |-> r.err, ret |-> r.ret]))
    /\ UNCHANGED <<abyte, op, args, result>>

BitSetBit == \E data \in BOOLEAN : BitCall("set_bit", <<data>>, bit_set_bit(abit, data))
BitBitFlip == \E parity \in BOOLEAN : BitCall("bit_flip", <<parity>>, bit_bit_flip(abit, parity))
BitGetBit == BitCall("get_bit", <<>>, bit_get_bit(abit, {}))
BitCheckParity == BitCall("check_parity", <<>>, bit_check_parity(abit))

InitBit ==
    /\ abit \in {bit_init(parity) : parity \in BOOLEAN}
    /\ trace = <<>>
    /\ abyte = byte_init(1)
    /\ op = "init"
    /\ args = <<>>
    /\ result = [err |-> "none", ret |-> <<>>]

\* the bit with bit_flip(parity=False) used to inject faults
NextBit == BitSetBit \/ BitBitFlip \/ BitGetBit \/ BitCheckParity
SpecBit == InitBit /\ [][NextBit]_vars

\* the bit under normal operation: set_bit and bit_flip() with its default
BitBitFlipDefault == BitCall("bit_flip", <<TRUE>>, bit_bit_flip(abit, TRUE))
NextBitNormal == BitSetBit \/ BitBitFlipDefault \/ BitGetBit \/ BitCheckParity
SpecBitNormal == InitBit /\ [][NextBitNormal]_vars

\* ---------------------------------------------------------------- a byte
ByteCall(name, a, r) ==
    /\ op' = name
    /\ args' = a
    /\ abyte' = r.self
    /\ result' = [err |-> r.err, ret |-> r.ret]
    /\ UNCHANGED <<abit, trace>>

SetBit(index, value) == ByteCall("set_bit", <<>>, byte_set_bit(abyte, index, value))
GetBit(index, override_parity) ==
    ByteCall("get_bit", <<>>, byte_get_bit(abyte, index, override_parity))
GetByte(override_parity) ==
    ByteCall("get_byte", <<override_parity>>, byte_get_byte(abyte, override_parity))
CheckParity == ByteCall("check_parity", <<>>, byte_check_parity(abyte))
SetByte(value, endian) ==
    ByteCall("set_byte", <<value, endian>>, byte_set_byte(abyte, value, endian))

\* a caller reaches into the byte and flips one of its bits directly:
\* bit_flip(parity=True) on any bit, bit_flip(parity=False) on the first
\* FaultBits data bits and on the parity bit
FlipDataBit(i, parity) ==
    /\ parity \/ i < FaultBits
    /\ ByteCall("flip_data", <<>>,
                Returned([abyte EXCEPT !._data.data[i + 1] = bit_bit_flip(@, parity).self],
                         <<>>))
FlipParityBit(parity) ==
    /\ "parity" \in DOMAIN abyte._data
    /\ ByteCall("flip_parity", <<>>,
                Returned([abyte EXCEPT !._data.parity = bit_bit_flip(@, parity).self], <<>>))

DoSetBit == \E index \in Indices, value \in BOOLEAN : SetBit(index, value)
DoGetBit == \E index \in Indices, override_parity \in BOOLEAN : GetBit(index, override_parity)
DoGetByte == \E override_parity \in BOOLEAN : GetByte(override_parity)
DoSetByte == \E value \in ValueLists, endian \in BOOLEAN : SetByte(value, endian)
DoSetByteFaulty == \E value \in FaultLists, endian \in BOOLEAN : SetByte(value, endian)
DoFlipDataBit == \E i \in 0..(NumBits - 1), parity \in BOOLEAN : FlipDataBit(i, parity)
DoFlipParityBit == \E parity \in BOOLEAN : FlipParityBit(parity)

Init ==
    /\ abit = bit_init(FALSE)
    /\ trace = <<>>
    /\ abyte \in {byte_init(parity) : parity \in Levels}
    /\ op = "init"
    /\ args = <<>>
    /\ result = [err |-> "none", ret |-> <<>>]

\* the byte used only through its own methods
NextNormal == DoSetBit \/ DoGetBit \/ DoGetByte \/ CheckParity \/ DoSetByte
SpecNormal == Init /\ [][NextNormal]_vars

\* the byte with faults injected as well
Next == DoSetBit \/ DoGetBit \/ DoGetByte \/ CheckParity \/ DoSetByteFaulty
        \/ DoFlipDataBit \/ DoFlipParityBit
Spec == Init /\ [][Next]_vars

\* one object per run, a bit or a byte, under every operation and fault: the
\* two classes share no state, so a run of one says nothing about the other
InitReads == InitBit \/ Init
NextReads == (op = "init" /\ NextBit) \/ (trace = <<>> /\ Next)
SpecReads == InitReads /\ [][NextReads]_vars

\* ---------------------------------------------------------------- vocabulary
\* the stored data values of the 8 bits, in index order
Data(self) == [i \in 1..NumBits |-> self._data.data[i]._data.data]
PopCount(self) == Cardinality({i \in 1..NumBits : Data(self)[i]})
HasParityBit(self) == "parity" \in DOMAIN self._data
ParityBitValue(self) == self._data.parity._data.data
\* the odd => false / even => true rule
ParityAgrees(self) == ParityBitValue(self) = ((PopCount(self) % 2) = 0)
NoBitMismatched(self) ==
    /\ \A i \in 1..NumBits : ~Mismatched(self._data.data[i])
    /\ HasParityBit(self) => ~Mismatched(self._data.parity)

\* the k-th newest call on abit (0 is the last one)
Call(k) == trace[Len(trace) - k]
IsCall(k, name, a) ==
    /\ Len(trace) > k
    /\ Call(k).op = name
    /\ Call(k).args = a

\* ---------------------------------------------------------------- claims: bit
\* C5: for a bit with parity enabled or disabled, in any prior state (data and
\* parity disagreeing included) and for every boolean v: after set(v), get()
\* returns v and raises no error.
C5_SetThenGet ==
    \A v \in BOOLEAN :
        IsCall(1, "set_bit", <<v>>) /\ IsCall(0, "get_bit", <<>>)
        => Call(0).err = "none" /\ Call(0).ret = <<v>>

C5_Witness ==
    /\ IsCall(1, "set_bit", <<TRUE>>)
    /\ IsCall(0, "get_bit", <<>>)
    /\ Mismatched(Call(1).pre)
    /\ Call(0).ret = <<TRUE>>

\* C6: for a parity-enabled bit: right after set(v), check_parity() returns
\* true; once bit_flip(parity=False) is then applied, check_parity() returns
\* false and get_bit() raises ValueError (the parity mismatch) and returns
\* nothing.
C6_SetFlipDetected ==
    \A v \in BOOLEAN :
        /\ IsCall(1, "set_bit", <<v>>) /\ Call(1).pre._parity
           /\ IsCall(0, "check_parity", <<>>)
           => Call(0).err = "none" /\ Call(0).ret = <<TRUE>>
        /\ IsCall(2, "set_bit", <<v>>) /\ Call(2).pre._parity
           /\ IsCall(1, "bit_flip", <<FALSE>>)
           => /\ IsCall(0, "check_parity", <<>>)
                 => Call(0).err = "none" /\ Call(0).ret = <<FALSE>>
              /\ IsCall(0, "get_bit", <<>>)
                 => Call(0).err = "ValueError" /\ Call(0).ret = <<>>

C6_Witness ==
    /\ IsCall(2, "set_bit", <<TRUE>>) /\ Call(2).pre._parity
    /\ IsCall(1, "bit_flip", <<FALSE>>)
    /\ IsCall(0, "get_bit", <<>>)
    /\ Call(0).err = "ValueError"

\* C7: for a parity-enabled bit, from construction on and after any sequence
\* of set_bit(v) and bit_flip(parity=True) calls, the parity value equals the
\* data value, and get_bit() never raises.
C7_NormalOperationConsistent ==
    abit._parity =>
        /\ abit._data.parity = abit._data.data
        /\ \A k \in 0..(Len(trace) - 1) :
               Call(k).op = "get_bit" => Call(k).err = "none"

C7_Witness ==
    /\ abit._parity
    /\ IsCall(2, "set_bit", <<FALSE>>)
    /\ IsCall(1, "bit_flip", <<TRUE>>)
    /\ IsCall(0, "get_bit", <<>>)
    /\ Call(0).ret = <<TRUE>>

\* C8: for a parity-enabled bit in any state, bit_flip(parity=True) applied
\* twice restores the data value and the parity value to what they were; when
\* the bit started consistent, data and parity agree after the first flip too.
C8_FlipTwice ==
    /\ abit._parity
    /\ IsCall(1, "bit_flip", <<TRUE>>)
    /\ IsCall(0, "bit_flip", <<TRUE>>)
    => /\ abit = Call(1).pre
       /\ ~Mismatched(Call(1).pre) => ~Mismatched(Call(0).pre)

C8_Witness ==
    /\ abit._parity
    /\ IsCall(1, "bit_flip", <<TRUE>>)
    /\ IsCall(0, "bit_flip", <<TRUE>>)
    /\ Mismatched(Call(1).pre)
    /\ abit = Call(1).pre

\* ---------------------------------------------------------------- claims: byte
\* C1: for a byte with byte-level parity (level 1 or 3), freshly constructed
\* and after any sequence of set_bit calls, the parity bit is true exactly
\* when the number of set data bits is even.
C1_ParityTracksPopCount ==
    ByteParity(abyte._parity) => HasParityBit(abyte) /\ ParityAgrees(abyte)

C1_Witness ==
    /\ ByteParity(abyte._parity)
    /\ op = "set_bit" /\ result.err = "none"
    /\ PopCount(abyte) = 3
    /\ ParityBitValue(abyte) = FALSE

\* C2: for a byte with byte-level parity whose parity bit disagrees with the
\* population count of its data bits, get_byte() without the override raises
\* ValueError (the parity mismatch) and returns no data.
C2_MismatchRaises ==
    /\ ByteParity(abyte._parity)
    /\ op = "get_byte" /\ args = <<FALSE>>
    /\ ~ParityAgrees(abyte)
    => result.err = "ValueError" /\ result.ret = <<>>

C2_Witness ==
    /\ ByteParity(abyte._parity)
    /\ op = "get_byte" /\ args = <<FALSE>>
    /\ ~ParityAgrees(abyte) /\ NoBitMismatched(abyte)
    /\ result.err = "ValueError"

\* C3: for a byte of any parity level with no mismatched bit and a parity bit
\* that agrees with the population count, get_byte() without the override
\* returns the 8 stored data values in index order and raises nothing.
C3_ConsistentReadReturnsData ==
    /\ op = "get_byte" /\ args = <<FALSE>>
    /\ NoBitMismatched(abyte)
    /\ ByteParity(abyte._parity) => ParityAgrees(abyte)
    => result.err = "none" /\ result.ret = Data(abyte)

\* C4: for a byte with byte-level parity whose parity bit disagrees with the
\* population count, get_byte(override_parity=True) raises nothing and returns
\* the 8 stored data values in index order.
C4_OverrideReadReturnsData ==
    /\ ByteParity(abyte._parity)
    /\ op = "get_byte" /\ args = <<TRUE>>
    /\ ~ParityAgrees(abyte)
    => result.err = "none" /\ result.ret = Data(abyte)

\* C9: set_bit(index, value) raises IndexError for every index outside 0..7,
\* negative ones included, and then writes no data bit.
C9_OutOfRangeRaises ==
    [][\A index \in Indices, value \in BOOLEAN :
           index \notin 0..(NumBits - 1) /\ SetBit(index, value)
           => result'.err = "IndexError" /\ Data(abyte)' = Data(abyte)]_vars

\* C10, as claimed: set_byte(values, endian=True) with n <= 8 values stores
\* supplied value k at bit index k for every k < n and false at indices n..7.
C10_LittleEndianInOrder ==
    /\ op = "set_byte" /\ args[2] = TRUE
    /\ Len(args[1]) <= NumBits
    => \A k \in 1..NumBits :
           Data(abyte)[k] = (IF k <= Len(args[1]) THEN args[1][k] ELSE FALSE)

\* C10, amended: on a byte of parity level 0, 1 or 3 used only through its own
\* methods, set_byte(values, endian=True) with n <= 8 values returns and
\* stores the supplied values in reverse order from index 0 on: supplied value
\* k ends at bit index n-1-k for every k < n, and indices n..7 hold false.
C10_LittleEndianReversed ==
    /\ op = "set_byte" /\ args[2] = TRUE
    /\ Len(args[1]) <= NumBits
    /\ abyte._parity # 2
    => /\ result.err = "none"
       /\ \A k \in 1..NumBits :
              Data(abyte)[k] = (IF k <= Len(args[1])
                                THEN args[1][Len(args[1]) + 1 - k]
                                ELSE FALSE)

C10_Witness ==
    /\ op = "set_byte" /\ args = <<(<<TRUE, TRUE, FALSE>>), TRUE>>
    /\ result.err = "none"
    /\ Data(abyte) = <<FALSE, TRUE, TRUE, FALSE, FALSE, FALSE, FALSE, FALSE>>

\* C11, as claimed: set_byte(values, endian=False) with n <= 8 values stores
\* supplied value k at bit index k for every k < n and the false padding after
\* them, at indices n..7.
C11_BigEndianFromIndex0 ==
    /\ op = "set_byte" /\ args[2] = FALSE
    /\ Len(args[1]) <= NumBits
    => \A k \in 1..NumBits :
           Data(abyte)[k] = (IF k <= Len(args[1]) THEN args[1][k] ELSE FALSE)

\* C11, amended: on a byte of parity level 0, 1 or 3 used only through its own
\* methods, set_byte(values, endian=False) with n <= 8 values returns and
\* stores the false padding first, at indices 0..7-n, and the supplied values
\* after it in the order given: supplied value k ends at bit index 8-n+k.
C11_BigEndianPaddingFirst ==
    /\ op = "set_byte" /\ args[2] = FALSE
    /\ Len(args[1]) <= NumBits
    /\ abyte._parity # 2
    => /\ result.err = "none"
       /\ \A k \in 1..NumBits :
              Data(abyte)[k] = (IF k > NumBits - Len(args[1])
                                THEN args[1][k - (NumBits - Len(args[1]))]
                                ELSE FALSE)

C11_Witness ==
    /\ op = "set_byte" /\ args = <<(<<TRUE, TRUE, FALSE>>), FALSE>>
    /\ result.err = "none"
    /\ Data(abyte) = <<FALSE, FALSE, FALSE, FALSE, FALSE, TRUE, TRUE, FALSE>>

C13_GetBitReturnsData ==
    [][\A index \in 0..(NumBits - 1), override_parity \in BOOLEAN :
           /\ ~Mismatched(abyte._data.data[index + 1])
           /\ GetBit(index, override_parity)
           => result'.err = "none" /\ result'.ret = <<Data(abyte)[index + 1]>>]_vars

\* C14: byte-level parity is enabled only for odd levels: on a level 2 byte
\* set_bit(index, value) with 0 <= index < 8 raises nothing and sets the bit,
\* and neither it nor get_byte() touches a byte parity bit (which a level 2
\* byte does not have, so touching it raises KeyError).
C14_Level2NoByteParity ==
    [][/\ \A index \in 0..(NumBits - 1), value \in BOOLEAN :
              abyte._parity = 2 /\ SetBit(index, value)
              => result'.err = "none" /\ Data(abyte)'[index + 1] = value
       /\ abyte._parity = 2 /\ GetByte(FALSE) => result'.err # "KeyError"]_vars

\* C15: for a byte with byte-level parity (level 1 or 3) in any reachable
\* state, bits or parity bit corrupted by direct flips included, set_byte with
\* at most 8 values raises nothing and leaves the 8 bits holding the written
\* values, none mismatched, and the parity bit true iff their count is even.
C15_SetByteRecovers ==
    /\ ByteParity(abyte._parity)
    /\ op = "set_byte"
    /\ Len(args[1]) <= NumBits
    => /\ result.err = "none"
       /\ Data(abyte) = set_byte_data(args[1], args[2])
       /\ NoBitMismatched(abyte)
       /\ ParityAgrees(abyte)

\* C16: for a byte with bit-level parity (level 2 or 3), when one of the 8
\* data bits has data and parity values that disagree, get_byte() without the
\* override raises ValueError (the parity mismatch) and returns no data,
\* whichever bit it is.
C16_BitMismatchAbortsRead ==
    /\ BitParity(abyte._parity)
    /\ op = "get_byte" /\ args = <<FALSE>>
    /\ \E i \in 1..NumBits : Mismatched(abyte._data.data[i])
    => result.err = "ValueError" /\ result.ret = <<>>

C16_Witness ==
    /\ abyte._parity = 2
    /\ op = "get_byte" /\ args = <<FALSE>>
    /\ Mismatched(abyte._data.data[2])
    /\ ~Mismatched(abyte._data.data[1])
    /\ result.err = "ValueError"

\* C17: whenever set_bit or set_byte ends by raising, none of the 8 data bits
\* and not the byte parity bit have changed.
C17_FailedWriteChangesNothing ==
    [][op' \in {"set_bit", "set_byte"} /\ result'.err # "none" /\ abit' = abit
       => abyte' = abyte]_vars

\* C19: for a byte with byte-level parity and no bit-level mismatch, in every
\* state, consistent or corrupted, check_parity() raises nothing and returns
\* true exactly when the count of set data bits is odd and the parity bit is
\* false, or the count is even and the parity bit is true.
C19_CheckParityRule ==
    /\ ByteParity(abyte._parity)
    /\ op = "check_parity"
    /\ NoBitMismatched(abyte)
    => /\ result.err = "none"
       /\ result.ret = <<\/ (PopCount(abyte) % 2) = 1 /\ ~ParityBitValue(abyte)
                         \/ (PopCount(abyte) % 2) = 0 /\ ParityBitValue(abyte)>>

C19_Witness ==
    /\ ByteParity(abyte._parity)
    /\ op = "check_parity"
    /\ NoBitMismatched(abyte)
    /\ PopCount(abyte) = 2 /\ ~ParityBitValue(abyte)
    /\ result.ret = <<FALSE>>

\* C18: reads never change state and never repair corruption: get_bit and
\* check_parity of a bit, and check_parity, get_byte and get_bit of a byte,
\* whether they return or raise, leave every data value and every parity value
\* as it was, so a mismatched bit stays mismatched.
C18_ReadsChangeNothing ==
    [][/\ trace' # trace /\ trace'[Len(trace')].op \in {"get_bit", "check_parity"}
          => abit' = abit
       /\ trace' = trace /\ op' \in {"get_bit", "get_byte", "check_parity"}
          => abyte' = abyte]_vars

C18_Witness ==
    /\ trace # <<>>
    /\ Call(0).op = "get_bit"
    /\ Call(0).err = "ValueError"
    /\ Mismatched(Call(0).pre)
    /\ Mismatched(abit)

====
